---- MODULE Spec2Model ----
(***************************************************************************)
(* Model of the panel-interview orchestration of                           *)
(* src/Gaiar_Baimuratov/lesson2/userboard/userboard4-baimuratov.py:        *)
(* the prompt composers, the interview loop of run_interview, its analysis *)
(* stage and the batch driver run_batch_interviews.                        *)
(*                                                                         *)
(* The program is one coroutine.  Every `await Runner.run(...)` suspends   *)
(* it, so a step of the model runs from the return of one participant      *)
(* invocation to the issue of the next one.  `pc` names the invocation the *)
(* coroutine is suspended on.                                              *)
(***************************************************************************)
EXTENDS Integers, Sequences, FiniteSets, TLC

(* ------------------------------ bounds --------------------------------- *)

\* longest persona roster
MaxRoster == 2

\* longest list of core questions of a feature
MaxCore == 2

\* largest configured max_followups
MaxFollowups == 2

\* longest batch (number of features)
MaxFeatures == 2

\* longest transcript handed to the persona prompt composer on its own
MaxTranscript == 5

\* longest transcript handed to the facilitator prompt composer on its own
MaxViewTranscript == 2

\* longest list of asked questions handed to the facilitator prompt composer
MaxAsked == 3

\* by how many records the longest transcript handed to the facilitator
\* prompt composer exceeds the window of the prompt
MaxOverWindow == 2

(* ------------------------- input universes ----------------------------- *)

\* persona names, in the order the rosters are cut from
AllPersonas == <<"Alice", "Bob", "Carol", "Dave">>

\* core question texts, in the order the core lists are cut from
AllCore == <<"Q1", "Q2", "Q3", "Q4">>

\* a question text that is in no core list
FollowupTexts == {"F1"}

\* topics are sequences of characters; "!" is removed by file-name sanitisation
Topics == {<<"a">>, <<"a", "!">>, <<"b">>}

Prefix(s, n) == SubSeq(s, 1, n)

Range(s) == {s[k] : k \in DOMAIN s}

\* rosters: unique names, and one roster in which two rows share a name
Rosters ==
    {[k \in 1..n |-> [name |-> AllPersonas[k]]] : n \in 0..MaxRoster}
        \cup {[k \in 1..2 |-> [name |-> AllPersonas[1]]]}

CoreLists == {Prefix(AllCore, n) : n \in 0..MaxCore}

\* the features of a single interview: the loop never reads the topic, so
\* one topic (one that sanitisation changes) stands for all
Features == [topic : {<<"a", "!">>}, core_questions : CoreLists]

\* The batches.  A finished interview leaves its report and its artifact
\* behind, so the states of a batch multiply with every interview: the
\* interviews of a batch are kept short (one core question, a follow-up
\* budget of 0 or 1), the long ones being covered by the single interview.
ShortFeatures == [topic : Topics, core_questions : {Prefix(AllCore, 1)}]

ShortFollowups == {0, 1}

FeatureLists == UNION {[1..n -> ShortFeatures] : n \in 0..MaxFeatures}

(* --------------------------- turn records ------------------------------ *)

\* {"role": "user", "content": fac_out.next_question}
Question(text) == [role |-> "user", content |-> text]

\* {"role": "assistant", "content": run.final_output, "name": persona_name}
Answer(persona_name, text) ==
    [role |-> "assistant", content |-> text, name |-> persona_name]

IsQuestion(msg) == msg.role = "user"

IsAnswer(msg) == msg.role = "assistant" /\ "name" \in DOMAIN msg

(* -------------------------- prompt composers --------------------------- *)

\* the window of the transcript the facilitator prompt renders
FacilitatorWindow == 20

\* mutant: the window is cut from the start of the transcript
recent_msgs_oldest(transcript) ==
    IF Len(transcript) > FacilitatorWindow
    THEN SubSeq(transcript, 1, FacilitatorWindow)
    ELSE transcript

\* transcript[-20:] if len(transcript) > 20 else transcript
recent_msgs(transcript) ==
    IF Len(transcript) > FacilitatorWindow
    THEN SubSeq(transcript, Len(transcript) - FacilitatorWindow + 1, Len(transcript))
    ELSE transcript

\* mutant: the prompt renders the core questions that were not asked yet
transcript_to_facilitator_prompt_remaining(topic, transcript, core_questions, asked_questions) ==
    [topic |-> topic,
     core_questions |-> SelectSeq(core_questions,
                            LAMBDA q : q \notin Range(asked_questions)),
     already_asked |-> asked_questions,
     recent |-> recent_msgs(transcript)]

\* what the facilitator prompt renders: the topic, the two question lists as
\* they are passed in, and the recent records
transcript_to_facilitator_prompt(topic, transcript, core_questions, asked_questions) ==
    [topic |-> topic,
     core_questions |-> core_questions,
     already_asked |-> asked_questions,
     recent |-> recent_msgs(transcript)]

\* The scan of transcript_to_persona_prompt from record k on: the positions of
\* the records appended to responses_for_current_question.
RECURSIVE ScanResponses(_, _, _, _, _, _)
ScanResponses(transcript, persona_name, current_question, k, collecting, acc) ==
    IF k > Len(transcript) THEN acc
    ELSE LET msg == transcript[k] IN
         IF msg.role = "user" /\ msg.content = current_question
         THEN ScanResponses(transcript, persona_name, current_question,
                            k + 1, TRUE, acc)
         ELSE LET acc2 == IF /\ collecting
                             /\ msg.role = "assistant"
                             /\ "name" \in DOMAIN msg
                             /\ msg.name # persona_name
                          THEN Append(acc, k)
                          ELSE acc
              IN IF /\ collecting
                    /\ msg.role = "user"
                    /\ msg.content # current_question
                 THEN acc2
                 ELSE ScanResponses(transcript, persona_name, current_question,
                                    k + 1, collecting, acc2)

\* mutant: the scan does not stop at the next different question
ResponsePositionsNoBreak(persona_name, current_question, transcript) ==
    SelectSeq([k \in DOMAIN transcript |-> k],
              LAMBDA k : /\ IsAnswer(transcript[k])
                         /\ transcript[k].name # persona_name
                         /\ \E j \in 1..(k - 1) :
                                transcript[j] = Question(current_question))

\* positions, in the transcript, of the peer answers a persona prompt shows
ResponsePositions(persona_name, current_question, transcript) ==
    ScanResponses(transcript, persona_name, current_question, 1, FALSE, <<>>)

\* what the persona prompt renders: identity, topic, question and the
\* "name: content" lines of responses_for_current_question
transcript_to_persona_prompt(persona_name, current_question, transcript, topic) ==
    LET at == ResponsePositions(persona_name, current_question, transcript) IN
    [persona_name |-> persona_name,
     topic |-> topic,
     current_question |-> current_question,
     responses |-> [j \in DOMAIN at |->
                      <<transcript[at[j]].name, transcript[at[j]].content>>]]

\* the lines of transcript_to_string_message: "Facilitator: ..", "<name>: .."
RECURSIVE TranscriptLines(_)
TranscriptLines(transcript) ==
    IF transcript = <<>> THEN <<>>
    ELSE LET msg == Head(transcript)
             rest == TranscriptLines(Tail(transcript))
         IN IF msg.role = "user" THEN <<<<"Facilitator", msg.content>>>> \o rest
            ELSE IF msg.role = "assistant"
                 THEN <<<<IF "name" \in DOMAIN msg THEN msg.name ELSE "Assistant",
                          msg.content>>>> \o rest
                 ELSE rest

transcript_to_string_message(topic, transcript) ==
    [topic |-> topic, lines |-> TranscriptLines(transcript)]

\* The loop of create_sentiment_prompt over the transcript: persona_responses
\* after the records from position k on, starting from the mapping `acc`
\* with current_question as tracked so far.
RECURSIVE GroupResponses(_, _, _, _)
GroupResponses(transcript, k, current_question, acc) ==
    IF k > Len(transcript) THEN acc
    ELSE LET msg == transcript[k] IN
         IF msg.role = "user"
         THEN GroupResponses(transcript, k + 1, msg.content, acc)
         ELSE IF /\ msg.role = "assistant"
                 /\ "name" \in DOMAIN msg
                 /\ msg.name \in DOMAIN acc
              THEN GroupResponses(transcript, k + 1, current_question,
                       [acc EXCEPT ![msg.name] =
                           Append(@, [question |-> current_question,
                                      response |-> msg.content])])
              ELSE GroupResponses(transcript, k + 1, current_question, acc)

\* no question seen yet (current_question = None)
NoQuestion == "None"

\* the keys of a dict keep the order of first insertion
RECURSIVE KeyOrder(_)
KeyOrder(personas) ==
    IF personas = <<>> THEN <<>>
    ELSE LET rest == KeyOrder(Prefix(personas, Len(personas) - 1))
             name == personas[Len(personas)].name
         IN IF name \in Range(rest) THEN rest ELSE Append(rest, name)

\* mutant: a persona without a response gets no section
create_sentiment_prompt_answered(transcript, personas) ==
    LET names == {personas[k].name : k \in DOMAIN personas}
        grouped == GroupResponses(transcript, 1, NoQuestion,
                                  [n \in names |-> <<>>])
        keys == SelectSeq(KeyOrder(personas), LAMBDA n : grouped[n] # <<>>)
    IN [j \in DOMAIN keys |-> [name |-> keys[j], responses |-> grouped[keys[j]]]]

\* one section per key of persona_responses, each with its responses
create_sentiment_prompt(transcript, personas) ==
    LET names == {personas[k].name : k \in DOMAIN personas}
        grouped == GroupResponses(transcript, 1, NoQuestion,
                                  [n \in names |-> <<>>])
        keys == KeyOrder(personas)
    IN [j \in DOMAIN keys |-> [name |-> keys[j], responses |-> grouped[keys[j]]]]

\* re.sub(r"[^\w\s-]", "", topic).strip().replace(" ", "-")
WordChars == {"a", "b"}

RECURSIVE Strip(_)
Strip(s) ==
    IF s = <<>> THEN s
    ELSE IF Head(s) = " " THEN Strip(Tail(s))
    ELSE IF s[Len(s)] = " " THEN Strip(Prefix(s, Len(s) - 1))
    ELSE s

safe_topic(topic) ==
    LET kept == SelectSeq(topic, LAMBDA c : c \in WordChars \cup {" ", "-"})
        stripped == Strip(kept)
    IN [k \in DOMAIN stripped |-> IF stripped[k] = " " THEN "-" ELSE stripped[k]]

\* what transcript_to_markdown renders: topic, decision, the sentiment
\* sections and the transcript records that have a line in the document
transcript_to_markdown(transcript, topic, report, sentiment_analysis) ==
    [topic |-> topic,
     decision |-> report.go_or_no_go,
     sentiments |-> sentiment_analysis,
     transcript |-> SelectSeq(transcript,
                       LAMBDA msg : \/ msg.role = "user"
                                    \/ /\ msg.role = "assistant"
                                       /\ "name" \in DOMAIN msg
                                       /\ msg.name # "")]

(* ------------------------------- state --------------------------------- *)

VARIABLES
    sources,           \* the persona CSV and the configuration JSON on disk
    personas,          \* the roster shared by the interviews of the batch
    features,          \* the (topic, core_questions) pairs of the batch
    max_followups,     \* the configured follow-up budget
    feature_i,         \* run_batch_interviews: 1-based index of the feature
    results,           \* run_batch_interviews: results
    files,             \* interview_transcripts/: file name -> content
    transcript,        \* run_interview: transcript
    followups_used,    \* run_interview: followups_used
    asked_questions,   \* run_interview: asked_questions
    fac_out,           \* run_interview: fac_out, the facilitator's last output
    persona_i,         \* run_interview: 1-based index of the persona asked
    sentiment_results, \* run_interview: sentiment_results
    pc,                \* the invocation the coroutine is suspended on
    pending,           \* the participant invocations in flight
    calls,             \* every participant invocation issued so far
    failed_call,       \* the invocation that raised, if one did
    raised,            \* the exception that left the driver, if one did
    returned           \* what the driver returned to its caller, if it did

vars == <<sources, personas, features, max_followups, feature_i, results, files,
          transcript, followups_used, asked_questions, fac_out, persona_i,
          sentiment_results, pc, pending, calls, failed_call, raised,
          returned>>

\* the arguments of the running run_interview call
topic == features[feature_i].topic

core_questions == features[feature_i].core_questions

\* fac_out and sentiment_results before their first assignment
Unassigned == [unassigned |-> TRUE]

\* what the backend may return for the facilitator (schema FacOut)
FacOutputs ==
    [next_question : Range(core_questions) \cup FollowupTexts,
     should_end : BOOLEAN]

\* What the backend may return for a persona: free text.  No code reads an
\* answer's text, so one text per invocation is modelled, and it is the number
\* of the invocation, which tells the answers of different rounds apart.
Contents == {ToString(Len(calls))}

\* what the backend may return for the sentiment agent (schema
\* SentimentAnalysis: a list of entries, the names are not constrained)
SentimentOutputs ==
    LET full == [k \in DOMAIN personas |->
                    [name |-> personas[k].name, sentiment |-> "NEUTRAL"]]
    IN {full, Prefix(full, Len(full) - 1)}

\* what the backend may return for the summarizer (schema SummaryReport:
\* the three fields are required)
ReportOutputs ==
    [market_perspective : {"perspective"},
     go_or_no_go : {"GO", "NO-GO"},
     rationale : {<<"r1", "r2", "r3">>}]

\* the exception of a failed Runner.run, as the backend raised it: neither
\* run_interview nor run_batch_interviews catches it or adds to it
GenerationFailure == [error |-> "GenerationFailure"]

\* no exception has left the driver
NoException == [error |-> "none"]

\* the files have been read: personas and features hold what was loaded
Loaded == [loaded |-> TRUE]

\* no invocation has raised
NoCall == [interview |-> 0, role |-> "none", who |-> 0]

(* ------------------------------ helpers -------------------------------- *)

\* mutant: the invocation is started without waiting for the one in flight
IssueOverlapping(role, who, prompt) ==
    /\ pending' = pending \cup {[interview |-> feature_i, role |-> role,
                                 who |-> who, prompt |-> prompt]}
    /\ calls' = Append(calls, [interview |-> feature_i, role |-> role,
                               who |-> who])
    /\ pc' = role

\* await Runner.run(agent, prompt): the invocation is issued and the
\* coroutine is suspended on it
Issue(role, who, prompt) ==
    /\ pending' = {[interview |-> feature_i, role |-> role, who |-> who,
                    prompt |-> prompt]}
    /\ calls' = Append(calls, [interview |-> feature_i, role |-> role,
                               who |-> who])
    /\ pc' = role

\* top of `while True`: compose the facilitator prompt and run the facilitator
AskFacilitator(tr, asked) ==
    Issue("facilitator", 0,
          transcript_to_facilitator_prompt(topic, tr, core_questions, asked))

\* mutant: every answer is recorded under the first persona's name
persona_name_first(k) == personas[1].name

\* persona = personas[i]; persona_name = persona["name"]
persona_name(k) == personas[k].name

\* mutant: the persona loop stops one persona early
LastPersonaEarly(k) == k >= Len(personas) - 1

\* the persona loop `for i, agent in enumerate(persona_agents)` is over
\* after personas[k]
LastPersona(k) == k >= Len(personas)

\* ask_persona for personas[k] over the transcript so far
AskPersona(k, tr, question) ==
    Issue("persona", k,
          transcript_to_persona_prompt(persona_name(k), question, tr, topic))

\* mutant: the sentiment prompt is composed from the transcript as it was
\* before the last record of the loop was appended
BeginAnalysisStale(tr) ==
    Issue("sentiment", 0, create_sentiment_prompt(transcript, personas))

\* after the loop: compose the sentiment prompt and run the sentiment agent
BeginAnalysis(tr) ==
    Issue("sentiment", 0, create_sentiment_prompt(tr, personas))

\* mutant: every round counts as a follow-up
TrackFollowupsAlways(question) == followups_used + 1

\* if fac_out.next_question not in core_questions: followups_used += 1
TrackFollowups(question) ==
    IF question \notin Range(core_questions)
    THEN followups_used + 1
    ELSE followups_used

\* mutant: the loop stops on the follow-up budget alone
StopConditionFollowupsOnly(fu, asked) == fu >= max_followups

\* mutant: the bound on the asked questions is compared with > for >=
StopConditionStrict(fu, asked) ==
    \/ fu >= max_followups
    \/ Len(asked) > Len(core_questions) + max_followups

\* mutant: both comparisons of the break condition are strict
StopConditionExceeds(fu, asked) ==
    \/ fu > max_followups
    \/ Len(asked) > Len(core_questions) + max_followups

\* the break condition at the bottom of the loop
StopCondition(fu, asked) ==
    \/ fu >= max_followups
    \/ Len(asked) >= Len(core_questions) + max_followups

\* the end of a round, after the last persona has answered
EndOfRound(tr, asked, question) ==
    LET fu == TrackFollowups(question) IN
    /\ followups_used' = fu
    /\ IF StopCondition(fu, asked)
       THEN BeginAnalysis(tr)
       ELSE AskFacilitator(tr, asked)

(* ------------------------------ actions -------------------------------- *)

\* the state when the driver starts: results = [], nothing issued
Started ==
    /\ sources = Loaded
    /\ feature_i = 1
    /\ results = <<>>
    /\ files = <<>>
    /\ transcript = <<>>
    /\ followups_used = 0
    /\ asked_questions = <<>>
    /\ fac_out = Unassigned
    /\ persona_i = 0
    /\ sentiment_results = Unassigned
    /\ pc = "batch_loop"
    /\ pending = {}
    /\ calls = <<>>
    /\ failed_call = NoCall
    /\ raised = NoException
    /\ returned = <<>>

\* One interview: a batch of one feature.  (With a single-topic
\* configuration the main block calls run_interview itself, with the same
\* arguments.)
Init ==
    /\ personas \in Rosters
    /\ features \in [1..1 -> Features]
    /\ max_followups \in 0..MaxFollowups
    /\ Started

\* a batch (the configuration has "features")
BatchInit ==
    /\ personas \in Rosters
    /\ features \in FeatureLists
    /\ max_followups \in ShortFollowups
    /\ Started

\* mutant: the transcript and the counters live across the interviews of a
\* batch
StartInterviewKeeping ==
    /\ pc = "batch_loop"
    /\ feature_i <= Len(features)
    /\ fac_out' = Unassigned
    /\ persona_i' = 0
    /\ sentiment_results' = Unassigned
    /\ AskFacilitator(transcript, asked_questions)
    /\ UNCHANGED <<sources, personas, features, max_followups, feature_i, results,
                   files, transcript, followups_used, asked_questions,
                   failed_call, raised, returned>>

\* the batch loop takes the next feature and calls run_interview, which runs
\* up to its first facilitator invocation
StartInterview ==
    /\ pc = "batch_loop"
    /\ feature_i <= Len(features)
    /\ transcript' = <<>>
    /\ followups_used' = 0
    /\ asked_questions' = <<>>
    /\ fac_out' = Unassigned
    /\ persona_i' = 0
    /\ sentiment_results' = Unassigned
    /\ AskFacilitator(<<>>, <<>>)
    /\ UNCHANGED <<sources, personas, features, max_followups, feature_i, results,
                   files, failed_call, raised, returned>>

\* mutant: the returned question is recorded before should_end is looked at
FacilitatorEndsRecording ==
    /\ pc = "facilitator"
    /\ \E out \in FacOutputs :
        /\ out.should_end
        /\ fac_out' = out
        /\ transcript' = Append(transcript, Question(out.next_question))
        /\ asked_questions' = Append(asked_questions, out.next_question)
        /\ BeginAnalysis(transcript')
        /\ UNCHANGED <<sources, personas, features, max_followups, feature_i, results,
                       files, followups_used, persona_i, sentiment_results,
                       failed_call, raised, returned>>

\* mutant: an interview that ends with an empty transcript returns without
\* its analysis
FacilitatorEndsSkippingAnalysis ==
    /\ pc = "facilitator"
    /\ \E out \in FacOutputs :
        /\ out.should_end
        /\ fac_out' = out
        /\ IF transcript = <<>>
           THEN /\ feature_i' = feature_i + 1
                /\ pc' = "batch_loop"
                /\ pending' = {}
                /\ UNCHANGED calls
           ELSE /\ BeginAnalysis(transcript)
                /\ UNCHANGED feature_i
        /\ UNCHANGED <<sources, personas, features, max_followups, results,
                       files, transcript, followups_used, asked_questions,
                       persona_i, sentiment_results, failed_call, raised, returned>>

\* the facilitator returns should_end = true: break, then the analysis starts
FacilitatorEnds ==
    /\ pc = "facilitator"
    /\ \E out \in FacOutputs :
        /\ out.should_end
        /\ fac_out' = out
        /\ BeginAnalysis(transcript)
        /\ UNCHANGED <<sources, personas, features, max_followups, feature_i, results,
                       files, transcript, followups_used, asked_questions,
                       persona_i, sentiment_results, failed_call, raised, returned>>

\* mutant: a question that was asked before is not added to asked_questions
\* again
FacilitatorAsksOnce ==
    /\ pc = "facilitator"
    /\ \E out \in FacOutputs :
        /\ ~out.should_end
        /\ fac_out' = out
        /\ LET tr == Append(transcript, Question(out.next_question))
               asked == IF out.next_question \in Range(asked_questions)
                        THEN asked_questions
                        ELSE Append(asked_questions, out.next_question)
           IN /\ transcript' = tr
              /\ asked_questions' = asked
              /\ IF Len(personas) > 0
                 THEN /\ persona_i' = 1
                      /\ AskPersona(1, tr, out.next_question)
                      /\ UNCHANGED followups_used
                 ELSE /\ EndOfRound(tr, asked, out.next_question)
                      /\ UNCHANGED persona_i
        /\ UNCHANGED <<sources, personas, features, max_followups, feature_i, results,
                       files, sentiment_results, failed_call, raised, returned>>

\* the facilitator returns a question: it is recorded and the first persona
\* is asked (with an empty roster the round is over at once)
FacilitatorAsks ==
    /\ pc = "facilitator"
    /\ \E out \in FacOutputs :
        /\ ~out.should_end
        /\ fac_out' = out
        /\ LET tr == Append(transcript, Question(out.next_question))
               asked == Append(asked_questions, out.next_question)
           IN /\ transcript' = tr
              /\ asked_questions' = asked
              /\ IF Len(personas) > 0
                 THEN /\ persona_i' = 1
                      /\ AskPersona(1, tr, out.next_question)
                      /\ UNCHANGED followups_used
                 ELSE /\ EndOfRound(tr, asked, out.next_question)
                      /\ UNCHANGED persona_i
        /\ UNCHANGED <<sources, personas, features, max_followups, feature_i, results,
                       files, sentiment_results, failed_call, raised, returned>>

\* mutant: a persona's new answer replaces its earlier answers
PersonaAnswersReplacing ==
    /\ pc = "persona"
    /\ \E content \in Contents :
        /\ LET others == SelectSeq(transcript,
                             LAMBDA msg : ~(/\ IsAnswer(msg)
                                            /\ msg.name = persona_name(persona_i)))
               tr == Append(others, Answer(persona_name(persona_i), content))
           IN /\ transcript' = tr
              /\ IF ~LastPersona(persona_i)
                 THEN /\ persona_i' = persona_i + 1
                      /\ AskPersona(persona_i + 1, tr, fac_out.next_question)
                      /\ UNCHANGED followups_used
                 ELSE /\ EndOfRound(tr, asked_questions, fac_out.next_question)
                      /\ UNCHANGED persona_i
        /\ UNCHANGED <<sources, personas, features, max_followups, feature_i, results,
                       files, asked_questions, fac_out, sentiment_results, failed_call, raised, returned>>

\* a persona returns its answer: it is recorded, then the next persona is
\* asked or the round ends
PersonaAnswers ==
    /\ pc = "persona"
    /\ \E content \in Contents :
        /\ LET tr == Append(transcript, Answer(persona_name(persona_i), content))
           IN /\ transcript' = tr
              /\ IF ~LastPersona(persona_i)
                 THEN /\ persona_i' = persona_i + 1
                      /\ AskPersona(persona_i + 1, tr, fac_out.next_question)
                      /\ UNCHANGED followups_used
                 ELSE /\ EndOfRound(tr, asked_questions, fac_out.next_question)
                      /\ UNCHANGED persona_i
        /\ UNCHANGED <<sources, personas, features, max_followups, feature_i, results,
                       files, asked_questions, fac_out, sentiment_results, failed_call, raised, returned>>

\* save_transcript_to_file: open(filepath, "w") replaces the file's content.
\* The file is named after the sanitised topic and the date of the day.
save_transcript_to_file(fs, markdown_content, tp) ==
    LET filename == safe_topic(tp)
        others == SelectSeq(fs, LAMBDA f : f.name # filename)
    IN Append(others, [name |-> filename, content |-> markdown_content])

\* mutant: the artifact is written as soon as the sentiment analysis is in,
\* before the summary request
SentimentReturnsSaving ==
    /\ pc = "sentiment"
    /\ \E out \in SentimentOutputs :
        /\ sentiment_results' = out
        /\ files' = save_transcript_to_file(files,
                        transcript_to_markdown(transcript, topic,
                                               [go_or_no_go |-> "pending"], out),
                        topic)
        /\ Issue("summary", 0, transcript_to_string_message(topic, transcript))
        /\ UNCHANGED <<sources, personas, features, max_followups, feature_i, results,
                       transcript, followups_used, asked_questions,
                       fac_out, persona_i, failed_call, raised, returned>>

\* the sentiment agent returns: the summary request is issued
SentimentReturns ==
    /\ pc = "sentiment"
    /\ \E out \in SentimentOutputs :
        /\ sentiment_results' = out
        /\ Issue("summary", 0, transcript_to_string_message(topic, transcript))
        /\ UNCHANGED <<sources, personas, features, max_followups, feature_i, results,
                       files, transcript, followups_used, asked_questions,
                       fac_out, persona_i, failed_call, raised, returned>>

\* mutant: the batch loop puts the newest result first
SummaryReturnsPrepending ==
    /\ pc = "summary"
    /\ \E report \in ReportOutputs :
        /\ LET markdown_transcript ==
                   transcript_to_markdown(transcript, topic, report,
                                          sentiment_results)
           IN /\ files' = save_transcript_to_file(files, markdown_transcript, topic)
              /\ results' = <<[topic |-> topic,
                               report |-> report,
                               sentiment |-> sentiment_results,
                               transcript_file |-> safe_topic(topic)]>>
                                \o results
        /\ feature_i' = feature_i + 1
        /\ pc' = "batch_loop"
        /\ pending' = {}
        /\ UNCHANGED <<sources, personas, features, max_followups, transcript,
                       followups_used, asked_questions, fac_out, persona_i,
                       sentiment_results, calls, failed_call, raised, returned>>

\* the summarizer returns: the artifact is written, run_interview returns its
\* result and the batch loop appends it to its local list
SummaryReturns ==
    /\ pc = "summary"
    /\ \E report \in ReportOutputs :
        /\ LET markdown_transcript ==
                   transcript_to_markdown(transcript, topic, report,
                                          sentiment_results)
           IN /\ files' = save_transcript_to_file(files, markdown_transcript, topic)
              /\ results' = Append(results,
                                [topic |-> topic,
                                 report |-> report,
                                 sentiment |-> sentiment_results,
                                 transcript_file |-> safe_topic(topic)])
        /\ feature_i' = feature_i + 1
        /\ pc' = "batch_loop"
        /\ pending' = {}
        /\ UNCHANGED <<sources, personas, features, max_followups, transcript,
                       followups_used, asked_questions, fac_out, persona_i,
                       sentiment_results, calls, failed_call, raised, returned>>

\* mutant: the invocation that raised is issued again
InvocationFailsRetrying ==
    /\ pc \in {"facilitator", "persona", "sentiment", "summary"}
    /\ failed_call' = calls[Len(calls)]
    /\ calls' = Append(calls, calls[Len(calls)])
    /\ UNCHANGED <<sources, personas, features, max_followups, feature_i, results,
                   files, transcript, followups_used, asked_questions,
                   fac_out, persona_i, sentiment_results, pc, pending, raised, returned>>

\* mutant: the batch loop catches the exception and goes on with the next
\* feature
InvocationFailsSkipping ==
    /\ pc \in {"facilitator", "persona", "sentiment", "summary"}
    /\ failed_call' = calls[Len(calls)]
    /\ pending' = {}
    /\ feature_i' = feature_i + 1
    /\ pc' = "batch_loop"
    /\ UNCHANGED <<sources, personas, features, max_followups, results, files,
                   transcript, followups_used, asked_questions, fac_out,
                   persona_i, sentiment_results, calls, raised, returned>>

\* a participant invocation raises: nothing catches the exception in
\* run_interview or run_batch_interviews
InvocationFails ==
    /\ pc \in {"facilitator", "persona", "sentiment", "summary"}
    /\ pc' = "failed"
    /\ failed_call' = calls[Len(calls)]
    /\ raised' = GenerationFailure
    /\ pending' = {}
    /\ UNCHANGED <<sources, personas, features, max_followups, feature_i, results,
                   files, transcript, followups_used, asked_questions,
                   fac_out, persona_i, sentiment_results, calls, returned>>

\* the batch loop is over: run_batch_interviews returns results, the only
\* way its local list reaches the caller
BatchReturns ==
    /\ pc = "batch_loop"
    /\ feature_i > Len(features)
    /\ pc' = "returned"
    /\ returned' = <<results>>
    /\ UNCHANGED <<sources, personas, features, max_followups, feature_i, results,
                   files, transcript, followups_used, asked_questions,
                   fac_out, persona_i, sentiment_results, pending, calls,
                   failed_call, raised>>

Next ==
    \/ StartInterview
    \/ FacilitatorEnds
    \/ FacilitatorAsks
    \/ PersonaAnswers
    \/ SentimentReturns
    \/ SummaryReturns
    \/ InvocationFails
    \/ BatchReturns

Spec == Init /\ [][Next]_vars

BatchSpec == BatchInit /\ [][Next]_vars

(* ---------------- the persona prompt composer on its own ---------------- *)

\* The records a transcript handed to the composer may hold at position k:
\* questions, named answers (also of names outside the roster) and an
\* assistant record without a name.  An answer's text is its position.
RecordsAt(k) ==
    {Question(AllCore[1]), Question(AllCore[2])}
        \cup {Answer(AllPersonas[n], ToString(k)) : n \in 1..2}
        \cup {[role |-> "assistant", content |-> ToString(k)]}

RECURSIVE TranscriptsOfLen(_)
TranscriptsOfLen(n) ==
    IF n = 0 THEN {<<>>}
    ELSE {Append(tr, r) : tr \in TranscriptsOfLen(n - 1), r \in RecordsAt(n)}

Transcripts == UNION {TranscriptsOfLen(n) : n \in 0..MaxTranscript}

\* any transcript, any requesting persona, any current question
ViewInit ==
    /\ personas \in {r \in Rosters : r # <<>>}
    /\ persona_i \in 1..MaxRoster
    /\ persona_i <= Len(personas)
    /\ transcript \in Transcripts
    /\ fac_out \in [next_question : {AllCore[1], AllCore[2]}, should_end : {FALSE}]
    /\ features = <<[topic |-> <<"a">>, core_questions |-> Prefix(AllCore, 1)]>>
    /\ max_followups = 0
    /\ sources = Loaded
    /\ feature_i = 1
    /\ results = <<>>
    /\ files = <<>>
    /\ followups_used = 0
    /\ asked_questions = <<>>
    /\ sentiment_results = Unassigned
    /\ pc = "compose"
    /\ pending = {}
    /\ calls = <<>>
    /\ failed_call = NoCall
    /\ raised = NoException
    /\ returned = <<>>

\* ask_persona composes the prompt of personas[persona_i] and issues it
ComposePersonaPrompt ==
    /\ pc = "compose"
    /\ AskPersona(persona_i, transcript, fac_out.next_question)
    /\ UNCHANGED <<sources, personas, features, max_followups, feature_i, results,
                   files, transcript, followups_used, asked_questions,
                   fac_out, persona_i, sentiment_results, failed_call, raised, returned>>

ViewSpec == ViewInit /\ [][ComposePersonaPrompt]_vars

(* -------------- the facilitator prompt composer on its own -------------- *)

\* the lists of asked questions handed to the composer: core questions and
\* follow-ups in any order, repeats included
AskedLists ==
    UNION {[1..n -> {AllCore[1], AllCore[2]} \cup FollowupTexts] :
             n \in 0..MaxAsked}

\* the transcripts handed to the composer
ShortTranscripts == UNION {TranscriptsOfLen(n) : n \in 0..MaxViewTranscript}

\* a transcript of n records in rounds of two answers, the text of a record
\* being its position
LongTranscript(n) ==
    [k \in 1..n |-> IF k % 3 = 1
                    THEN Question(ToString(k))
                    ELSE Answer(AllPersonas[IF k % 3 = 2 THEN 1 ELSE 2],
                                ToString(k))]

\* transcripts about as long as the window of the prompt, and longer
LongTranscripts ==
    {LongTranscript(n) :
        n \in (FacilitatorWindow - 1)..(FacilitatorWindow + MaxOverWindow)}

\* any topic, any transcript, any core questions, any asked questions
FacViewInit ==
    /\ features \in {<<[topic |-> t, core_questions |-> c]>> :
                       t \in Topics, c \in CoreLists}
    /\ transcript \in ShortTranscripts \cup LongTranscripts
    /\ asked_questions \in AskedLists
    /\ personas = <<>>
    /\ persona_i = 0
    /\ fac_out = Unassigned
    /\ max_followups = 0
    /\ sources = Loaded
    /\ feature_i = 1
    /\ results = <<>>
    /\ files = <<>>
    /\ followups_used = 0
    /\ sentiment_results = Unassigned
    /\ pc = "compose_facilitator"
    /\ pending = {}
    /\ calls = <<>>
    /\ failed_call = NoCall
    /\ raised = NoException
    /\ returned = <<>>

\* the facilitator prompt is composed from the inputs and issued
ComposeFacilitatorPrompt ==
    /\ pc = "compose_facilitator"
    /\ AskFacilitator(transcript, asked_questions)
    /\ UNCHANGED <<sources, personas, features, max_followups, feature_i, results,
                   files, transcript, followups_used, asked_questions,
                   fac_out, persona_i, sentiment_results, failed_call,
                   raised, returned>>

FacViewSpec == FacViewInit /\ [][ComposeFacilitatorPrompt]_vars

(* --------------- the sentiment prompt composer on its own --------------- *)

\* any roster (empty, and with a name twice), any transcript (with answers
\* of names outside the roster, with answers before the first question)
SentimentViewInit ==
    /\ personas \in Rosters
    /\ transcript \in Transcripts
    /\ features = <<[topic |-> <<"a">>, core_questions |-> Prefix(AllCore, 1)]>>
    /\ max_followups = 0
    /\ sources = Loaded
    /\ feature_i = 1
    /\ results = <<>>
    /\ files = <<>>
    /\ followups_used = 0
    /\ asked_questions = <<>>
    /\ fac_out = Unassigned
    /\ persona_i = 0
    /\ sentiment_results = Unassigned
    /\ pc = "compose_sentiment"
    /\ pending = {}
    /\ calls = <<>>
    /\ failed_call = NoCall
    /\ raised = NoException
    /\ returned = <<>>

\* the sentiment prompt is composed from the transcript and the roster and
\* issued
ComposeSentimentPrompt ==
    /\ pc = "compose_sentiment"
    /\ BeginAnalysis(transcript)
    /\ UNCHANGED <<sources, personas, features, max_followups, feature_i,
                   results, files, transcript, followups_used,
                   asked_questions, fac_out, persona_i, sentiment_results,
                   failed_call, raised, returned>>

SentimentViewSpec == SentimentViewInit /\ [][ComposeSentimentPrompt]_vars

(* ----------------------- the main block: loading ----------------------- *)

\* load_personas_from_csv: a missing file raises FileNotFoundError; a row
\* without a name is skipped, whatever the number of rows that remain
load_personas_from_csv(csvfile) ==
    IF ~csvfile.exists
    THEN [raised |-> "FileNotFoundError"]
    ELSE LET named == SelectSeq(csvfile.rows, LAMBDA row : row.name # "")
         IN [personas |-> [k \in DOMAIN named |-> [name |-> named[k].name]]]

\* data.get("max_followups", 2), and the default of the sample configuration
DefaultMaxFollowups == 2

\* load_interview_config: a missing file raises FileNotFoundError; data that
\* is not an object, a feature without topic or core_questions, and a
\* single-topic object without topic or core_questions raise ValueError
load_interview_config(jsonfile) ==
    IF ~jsonfile.exists
    THEN [raised |-> "FileNotFoundError"]
    ELSE LET data == jsonfile.data IN
         IF "not_object" \in DOMAIN data
         THEN [raised |-> "ValueError"]
         ELSE IF "features" \in DOMAIN data
         THEN IF \E i \in DOMAIN data.features :
                     \/ "topic" \notin DOMAIN data.features[i]
                     \/ "core_questions" \notin DOMAIN data.features[i]
              THEN [raised |-> "ValueError"]
              ELSE [cfg |-> [features |-> data.features,
                             max_followups |->
                                 IF "max_followups" \in DOMAIN data
                                 THEN data.max_followups
                                 ELSE DefaultMaxFollowups]]
         ELSE IF "topic" \notin DOMAIN data \/ "core_questions" \notin DOMAIN data
              THEN [raised |-> "ValueError"]
              ELSE [cfg |-> [topic |-> data.topic,
                             core_questions |-> data.core_questions,
                             max_followups |->
                                 IF "max_followups" \in DOMAIN data
                                 THEN data.max_followups
                                 ELSE DefaultMaxFollowups]]

\* the built-in demo personas of the main block
DefaultPersonas == [k \in 1..3 |-> [name |-> AllPersonas[k]]]

\* the sample default configuration of the main block
DefaultConfig ==
    [topic |-> <<"a", "!">>,
     core_questions |-> Prefix(AllCore, 3),
     max_followups |-> DefaultMaxFollowups]

\* the exception of a configuration that load_interview_config rejects
ConfigurationError == [error |-> "ValueError"]

\* the persona files of the runs: none, one with a nameless row only, one
\* with a named row, one with both
PersonaFiles ==
    {[exists |-> FALSE]}
        \cup {[exists |-> TRUE, rows |-> rows] :
                rows \in {<<[name |-> ""]>>,
                          <<[name |-> AllPersonas[1]]>>,
                          <<[name |-> ""], [name |-> AllPersonas[1]]>>}}

\* the configuration files of the runs: none, one that is no JSON object,
\* single-topic ones (whole, without topic) and batch ones (whole, with a
\* feature that lacks its core questions)
ConfigFiles ==
    {[exists |-> FALSE]}
        \cup {[exists |-> TRUE, data |-> data] :
                data \in {[not_object |-> TRUE],
                          [topic |-> <<"a">>, core_questions |-> Prefix(AllCore, 1),
                           max_followups |-> 0],
                          [core_questions |-> Prefix(AllCore, 1)],
                          [features |-> <<[topic |-> <<"a">>,
                                           core_questions |-> Prefix(AllCore, 1)],
                                          [topic |-> <<"b">>,
                                           core_questions |-> Prefix(AllCore, 1)]>>,
                           max_followups |-> 0],
                          [features |-> <<[topic |-> <<"a">>,
                                           core_questions |-> Prefix(AllCore, 1)],
                                          [topic |-> <<"b">>]>>]}}

\* the script starts: nothing is loaded
MainInit ==
    /\ sources \in [personas_csv : PersonaFiles, interview_config : ConfigFiles]
    /\ personas = <<>>
    /\ features = <<>>
    /\ max_followups = 0
    /\ feature_i = 1
    /\ results = <<>>
    /\ files = <<>>
    /\ transcript = <<>>
    /\ followups_used = 0
    /\ asked_questions = <<>>
    /\ fac_out = Unassigned
    /\ persona_i = 0
    /\ sentiment_results = Unassigned
    /\ pc = "main"
    /\ pending = {}
    /\ calls = <<>>
    /\ failed_call = NoCall
    /\ raised = NoException
    /\ returned = <<>>

\* mutant: a rejected configuration is replaced by the sample default as a
\* missing one is
MainCatchingAll ==
    /\ pc = "main"
    /\ LET loaded == load_personas_from_csv(sources.personas_csv)
           result == load_interview_config(sources.interview_config)
           cfg == IF "raised" \in DOMAIN result THEN DefaultConfig ELSE result.cfg
       IN /\ personas' = IF "raised" \in DOMAIN loaded
                         THEN DefaultPersonas
                         ELSE loaded.personas
          /\ pc' = "batch_loop"
          /\ features' = IF "features" \in DOMAIN cfg
                         THEN cfg.features
                         ELSE <<[topic |-> cfg.topic,
                                 core_questions |-> cfg.core_questions]>>
          /\ max_followups' = cfg.max_followups
    /\ UNCHANGED <<sources, feature_i, results, files, transcript,
                   followups_used, asked_questions, fac_out, persona_i,
                   sentiment_results, pending, calls, failed_call, raised,
                   returned>>

\* the main block up to asyncio.run: the personas are loaded (a missing file
\* is replaced by the demo personas), then the configuration (a missing file
\* is replaced by the sample default; a rejected one ends the script)
Main ==
    /\ pc = "main"
    /\ LET loaded == load_personas_from_csv(sources.personas_csv)
           result == load_interview_config(sources.interview_config)
           cfg == IF "raised" \in DOMAIN result THEN DefaultConfig ELSE result.cfg
       IN /\ personas' = IF "raised" \in DOMAIN loaded
                         THEN DefaultPersonas
                         ELSE loaded.personas
          /\ IF "raised" \in DOMAIN result /\ result.raised = "ValueError"
             THEN /\ pc' = "failed"
                  /\ raised' = ConfigurationError
                  /\ UNCHANGED <<features, max_followups>>
             ELSE /\ pc' = "batch_loop"
                  /\ features' = IF "features" \in DOMAIN cfg
                                 THEN cfg.features
                                 ELSE <<[topic |-> cfg.topic,
                                         core_questions |-> cfg.core_questions]>>
                  /\ max_followups' = cfg.max_followups
                  /\ UNCHANGED raised
    /\ UNCHANGED <<sources, feature_i, results, files, transcript,
                   followups_used, asked_questions, fac_out, persona_i,
                   sentiment_results, pending, calls, failed_call, returned>>

MainNext == Main \/ Next

MainSpec == MainInit /\ [][MainNext]_vars

(* ------------------------------ properties ----------------------------- *)

\* the feature of the interview that runs, or that ran last
Session == IF pc \in {"batch_loop", "returned"} THEN feature_i - 1 ELSE feature_i

SessionCore == features[Session].core_questions

\* len(coreQuestions) + maxFollowups of that interview
SessionBound == Len(SessionCore) + max_followups

\* a session with non-empty coreQuestions has started
ValidSession == Session \in DOMAIN features /\ SessionCore # <<>>

\* the number of Question records, i.e. of rounds begun
NumQuestions(tr) == Len(SelectSeq(tr, IsQuestion))

\* the position of the last Question record before position k, or 0
LastQuestionPos(tr, k) ==
    LET before == {j \in 1..(k - 1) : j \in DOMAIN tr /\ IsQuestion(tr[j])}
    IN IF before = {} THEN 0 ELSE CHOOSE j \in before : \A i \in before : i <= j

\* the text of the most recent Question record before position k
PrecedingQuestion(tr, k) ==
    IF LastQuestionPos(tr, k) = 0 THEN NoQuestion
    ELSE tr[LastQuestionPos(tr, k)].content

UniqueNames ==
    \A a, b \in DOMAIN personas : personas[a].name = personas[b].name => a = b

\* the loop of the session is over and no invocation of the loop has failed
LoopOver ==
    \/ pc \in {"sentiment", "summary"}
    \/ pc \in {"batch_loop", "returned"} /\ results # <<>>
    \/ pc = "failed" /\ failed_call.role \in {"sentiment", "summary"}

\* the loop is over because the bound on the asked questions was reached
EndedOnBound ==
    /\ pc = "sentiment"
    /\ ~fac_out.should_end
    /\ followups_used < max_followups

\* C1: with non-empty coreQuestions the loop runs at most
\* len(coreQuestions) + maxFollowups rounds, whatever the facilitator
\* returns: the facilitator is invoked only while fewer rounds than that have
\* begun, and a round is over after one invocation per persona.
C1_LoopEndsWithinBound ==
    ValidSession =>
        /\ NumQuestions(transcript) <= SessionBound
        /\ pc = "facilitator" => NumQuestions(transcript) < SessionBound
        /\ pc = "persona" => persona_i \in 1..Len(personas)

\* the loop ended on its bound after a facilitator re-asked a question and
\* never returned should_end = true
C1_Witness ==
    /\ ValidSession
    /\ EndedOnBound
    /\ NumQuestions(transcript) = SessionBound
    /\ \E a, b \in DOMAIN asked_questions :
          a # b /\ asked_questions[a] = asked_questions[b]

\* C2: the peer answers in the prompt of the persona at roster position
\* persona_i are exactly the answers recorded before in the same round, by
\* the personas before it, in roster order.
C2_ViewIsSameRoundAnswers ==
    (pc = "persona" /\ UniqueNames /\ ValidSession) =>
        \A p \in pending :
            LET q == LastQuestionPos(transcript, Len(transcript) + 1)
            IN p.prompt.responses =
                  [j \in 1..(persona_i - 1) |->
                      <<transcript[q + j].name, transcript[q + j].content>>]

\* C3: every answer in a persona prompt is an Answer record of the
\* transcript whose most recent preceding Question is currentQuestion, and
\* none is an answer of the requesting persona.
C3_ViewOnlyCurrentQuestionPeers ==
    pc = "persona" =>
        \A p \in pending :
            \A j \in DOMAIN p.prompt.responses :
                LET e == p.prompt.responses[j]
                    from == {k \in DOMAIN transcript :
                                /\ IsAnswer(transcript[k])
                                /\ transcript[k].name = e[1]
                                /\ transcript[k].content = e[2]}
                IN /\ e[1] # p.prompt.persona_name
                   /\ from # {}
                   /\ \A k \in from :
                         PrecedingQuestion(transcript, k) = p.prompt.current_question

\* a prompt with a peer answer, composed over a transcript that also holds
\* an answer of the requesting persona to the current question and a peer
\* answer to another question
C3_Witness ==
    /\ pc = "persona"
    /\ \E p \in pending :
          /\ p.prompt.responses # <<>>
          /\ \E k \in DOMAIN transcript :
                /\ IsAnswer(transcript[k])
                /\ transcript[k].name = p.prompt.persona_name
                /\ PrecedingQuestion(transcript, k) = p.prompt.current_question
          /\ \E k \in DOMAIN transcript :
                /\ IsAnswer(transcript[k])
                /\ transcript[k].name # p.prompt.persona_name
                /\ PrecedingQuestion(transcript, k) \notin
                      {p.prompt.current_question, NoQuestion}

\* C4: when the loop is over and no invocation of it failed, the transcript
\* holds (number of Question records) * (1 + roster size) records.
C4_TranscriptLength ==
    LoopOver =>
        Len(transcript) = NumQuestions(transcript) * (1 + Len(personas))

\* the loop is over after two rounds of a roster of two
C4_Witness ==
    /\ LoopOver
    /\ NumQuestions(transcript) >= 2
    /\ Len(personas) = 2

\* C5: with unique names, the k-th record after a Question record, up to the
\* next Question record, is an Answer of the k-th roster persona; so the
\* answers of a round are in roster order, name roster personas, and no
\* persona answers twice in a round.
C5_AnswersInRosterOrder ==
    UniqueNames =>
        \A k \in DOMAIN transcript :
            transcript[k].role = "assistant" =>
                LET q == LastQuestionPos(transcript, k)
                IN /\ q > 0
                   /\ k - q <= Len(personas)
                   /\ IsAnswer(transcript[k])
                   /\ transcript[k].name = personas[k - q].name

\* two complete rounds of a roster of two, and a third one under way
C5_Witness ==
    /\ UniqueNames
    /\ Len(personas) = 2
    /\ pc = "persona"
    /\ persona_i = 2
    /\ NumQuestions(transcript) = 3

\* C6: followupsUsed <= maxFollowups in every state of the loop (here: of a
\* session with core questions and personas).
C6_FollowupsWithinBudget ==
    (ValidSession /\ personas # <<>>) => followups_used <= max_followups

\* C7: with non-empty coreQuestions,
\* len(askedQuestions) <= len(coreQuestions) + maxFollowups.
C7_AskedWithinBound ==
    ValidSession => Len(asked_questions) <= SessionBound

\* the bound is reached, by core questions and a follow-up
C7_Witness ==
    /\ ValidSession
    /\ Len(asked_questions) = SessionBound
    /\ SessionBound >= 3
    /\ followups_used = 1

\* C8: the step in which the facilitator returns should_end = true leaves
\* transcript, askedQuestions and followupsUsed as they are, ends the loop,
\* and issues the sentiment request and no persona invocation.
C8_ShouldEndRecordsNothing ==
    [][(/\ pc = "facilitator"
        /\ fac_out' # Unassigned
        /\ fac_out'.should_end)
       => /\ transcript' = transcript
          /\ asked_questions' = asked_questions
          /\ followups_used' = followups_used
          /\ pc' = "sentiment"
          /\ calls' = Append(calls, [interview |-> feature_i,
                                     role |-> "sentiment", who |-> 0])]_vars

\* the facilitator ended the interview after a first round, with a question
\* in its output
C8_Witness ==
    /\ pc = "sentiment"
    /\ fac_out.should_end
    /\ fac_out.next_question \in Range(SessionCore)
    /\ NumQuestions(transcript) = 1
    /\ Len(personas) = 2

\* C9: a step after which an invocation has raised leaves the driver failed
\* with that exception, with no invocation in flight, and appends no record
\* and issues no invocation: neither the step of the failure nor any later.
C9_FailureIsFatal ==
    [][failed_call' # NoCall
       => /\ pc' = "failed"
          /\ raised' = GenerationFailure
          /\ pending' = {}
          /\ calls' = calls
          /\ transcript' = transcript
          /\ asked_questions' = asked_questions
          /\ results' = results
          /\ files' = files]_vars

\* the first persona of two failed in the second round
C9_Witness ==
    /\ pc = "failed"
    /\ failed_call.role = "persona"
    /\ failed_call.who = 1
    /\ Len(personas) = 2
    /\ NumQuestions(transcript) = 2
    /\ Len(transcript) = 4

\* C10: once an invocation of interview k has raised, the batch driver has
\* ended with that exception; the invocation that raised is the last one
\* issued, none was issued for a later interview, and the results are those
\* of the interviews before k.
C10_BatchHaltsAtFailure ==
    failed_call # NoCall =>
        /\ pc = "failed"
        /\ raised = GenerationFailure
        /\ pending = {}
        /\ calls[Len(calls)] = failed_call
        /\ failed_call.interview = feature_i
        /\ \A j \in DOMAIN calls : calls[j].interview <= failed_call.interview
        /\ Len(results) = feature_i - 1
        /\ ~ENABLED Next

\* the first interview of a batch of two failed in its analysis
C10_Witness ==
    /\ pc = "failed"
    /\ Len(features) = 2
    /\ failed_call.interview = 1
    /\ failed_call.role = "summary"

\* C11: after a batch halted because interview k failed, the caller of the
\* batch driver holds the results of the interviews 1..k-1.
C11_PriorResultsReachCaller ==
    (pc = "failed" /\ feature_i > 1 /\ personas # <<>>) =>
        /\ returned # <<>>
        /\ \A j \in 1..(feature_i - 1) :
               j \in DOMAIN returned[1] /\ returned[1][j] = results[j]

\* C12: a step in which an invocation raises writes no artifact and adds no
\* result, and the driver returns nothing; the artifacts and the results
\* change only in the step in which the summary request of the running
\* interview returns, the sentiment request of that interview having been
\* issued right before it and answered.
C12_ArtifactOnlyAfterAnalysis ==
    [][/\ failed_call' # NoCall
          => /\ files' = files
             /\ results' = results
             /\ returned' = <<>>
       /\ (files' # files \/ results' # results)
          => /\ pc = "summary"
             /\ failed_call' = NoCall
             /\ Len(calls) >= 2
             /\ calls' = calls
             /\ calls[Len(calls) - 1] =
                    [interview |-> feature_i, role |-> "sentiment", who |-> 0]
             /\ calls[Len(calls)] =
                    [interview |-> feature_i, role |-> "summary", who |-> 0]
             /\ Len(results') = feature_i
             /\ results'[feature_i].sentiment = sentiment_results]_vars

\* the summary request of the second interview raised: the only artifact and
\* the only result are those of the first interview
C12_Witness ==
    /\ pc = "failed"
    /\ failed_call.role = "summary"
    /\ failed_call.interview = 2
    /\ transcript # <<>>
    /\ Len(files) = 1
    /\ Len(results) = 1

\* C13: the sentiment analysis of every result names exactly the personas of
\* the roster, each of them once (the roster's names being distinct).
C13_SentimentCoversRoster ==
    (UniqueNames /\ ValidSession) =>
        \A j \in DOMAIN results :
            LET analysis == results[j].sentiment
            IN /\ \A k \in DOMAIN personas :
                      Cardinality({e \in DOMAIN analysis :
                                     analysis[e].name = personas[k].name}) = 1
               /\ \A e \in DOMAIN analysis :
                      \E k \in DOMAIN personas :
                          analysis[e].name = personas[k].name

\* the number of invocations of a role issued for interview k
IssuedOf(cs, k, role) ==
    Cardinality({j \in DOMAIN cs : cs[j].interview = k /\ cs[j].role = role})

\* where the session stands with its two analysis requests: none during the
\* loop; then the sentiment request, in flight, composed from the transcript;
\* then the summary request, in flight, composed from the transcript
AnalysisRequests ==
    /\ pc \in {"facilitator", "persona"}
       => /\ IssuedOf(calls, feature_i, "sentiment") = 0
          /\ IssuedOf(calls, feature_i, "summary") = 0
    /\ pc = "sentiment"
       => /\ IssuedOf(calls, feature_i, "sentiment") = 1
          /\ IssuedOf(calls, feature_i, "summary") = 0
          /\ pending = {[interview |-> feature_i, role |-> "sentiment",
                         who |-> 0,
                         prompt |-> create_sentiment_prompt(transcript,
                                                            personas)]}
    /\ pc = "summary"
       => /\ IssuedOf(calls, feature_i, "sentiment") = 1
          /\ IssuedOf(calls, feature_i, "summary") = 1
          /\ pending = {[interview |-> feature_i, role |-> "summary",
                         who |-> 0,
                         prompt |-> transcript_to_string_message(topic,
                                                                 transcript)]}
    /\ pc \in {"batch_loop", "returned"}
       => \A k \in 1..(feature_i - 1) :
              /\ IssuedOf(calls, k, "sentiment") = 1
              /\ IssuedOf(calls, k, "summary") = 1

\* C14: once the loop is over the transcript does not change, and the two
\* analysis requests are issued once each, after the loop, the sentiment
\* request first, each composed from the transcript as the loop left it.
C14_AnalysisOverFinalTranscript ==
    [][/\ pc \in {"sentiment", "summary"} => transcript' = transcript
       /\ pc' = "summary" => pc \in {"sentiment", "summary"}
       /\ AnalysisRequests']_vars

\* the summary request is in flight after a round of two personas
C14_Witness ==
    /\ pc = "summary"
    /\ Len(personas) = 2
    /\ Len(transcript) >= 3
    /\ IssuedOf(calls, feature_i, "sentiment") = 1

\* the answer texts a prompt view renders
ViewAnswerTexts(p) ==
    IF p.role = "facilitator"
    THEN {p.prompt.recent[j].content :
            j \in {i \in DOMAIN p.prompt.recent : IsAnswer(p.prompt.recent[i])}}
    ELSE IF p.role = "persona"
    THEN {p.prompt.responses[j][2] : j \in DOMAIN p.prompt.responses}
    ELSE IF p.role = "sentiment"
    THEN UNION {{p.prompt[j].responses[i].response :
                    i \in DOMAIN p.prompt[j].responses} : j \in DOMAIN p.prompt}
    ELSE {p.prompt.lines[j][2] :
            j \in {i \in DOMAIN p.prompt.lines :
                     p.prompt.lines[i][1] # "Facilitator"}}

\* the answer texts produced in interview k: a persona's answer carries the
\* serial number of the invocation that produced it
AnswerTextsOf(k) ==
    {ToString(j) : j \in {i \in DOMAIN calls : /\ calls[i].interview = k
                                               /\ calls[i].role = "persona"}}

\* C15: in a batch, the first invocation of an interview is issued with an
\* empty transcript, empty asked_questions and followups_used = 0, over an
\* empty view; it directly follows the summary request of the interview
\* before, which has returned its result; and the view of every invocation
\* renders answers of the running interview only.
C15_InterviewsAreIsolated ==
    /\ \A j \in DOMAIN calls :
          (j = 1 \/ calls[j].interview # calls[j - 1].interview)
          => /\ calls[j].role = "facilitator"
             /\ j > 1 => /\ calls[j - 1].role = "summary"
                         /\ calls[j].interview = calls[j - 1].interview + 1
                         /\ Len(results) >= calls[j - 1].interview
             /\ (j = Len(calls) /\ pc = "facilitator")
                => /\ transcript = <<>>
                   /\ asked_questions = <<>>
                   /\ followups_used = 0
                   /\ \A p \in pending :
                          /\ p.prompt.recent = <<>>
                          /\ p.prompt.already_asked = <<>>
    /\ \A p \in pending :
          /\ p.interview = feature_i
          /\ ViewAnswerTexts(p) \subseteq AnswerTextsOf(feature_i)
          /\ \A k \in 1..(feature_i - 1) :
                 ViewAnswerTexts(p) \cap AnswerTextsOf(k) = {}

\* the second persona of the second interview is asked, with the first
\* persona's answer in its view, after an interview that recorded answers
C15_Witness ==
    /\ pc = "persona"
    /\ feature_i = 2
    /\ persona_i = 2
    /\ AnswerTextsOf(1) # {}
    /\ \E p \in pending : ViewAnswerTexts(p) # {}

\* the facilitator of the session returned should_end = true on its first
\* invocation
EndedAtOnce ==
    /\ Session \in DOMAIN features
    /\ fac_out # Unassigned
    /\ fac_out.should_end
    /\ IssuedOf(calls, Session, "facilitator") = 1

\* the invocations issued for interview k, in the order of their issue
CallsOf(k) == SelectSeq(calls, LAMBDA c : c.interview = k)

\* C16: when the facilitator returned should_end = true on its first
\* invocation, whatever the roster: the transcript and asked_questions are
\* empty and no persona was invoked; the sentiment request is issued over a
\* view with one empty section per persona, then the summary request over a
\* view without lines; and once the summary request has returned, the
\* session has its result, with a report that has the three required fields.
C16_EndAtOnceStillReports ==
    EndedAtOnce =>
        /\ transcript = <<>>
        /\ asked_questions = <<>>
        /\ IssuedOf(calls, Session, "persona") = 0
        /\ pc \in {"sentiment", "summary", "batch_loop", "returned", "failed"}
        /\ pc = "sentiment"
           => \A p \in pending :
                  /\ p.role = "sentiment"
                  /\ p.prompt = [j \in DOMAIN KeyOrder(personas) |->
                                    [name |-> KeyOrder(personas)[j],
                                     responses |-> <<>>]]
        /\ pc = "summary"
           => \A p \in pending :
                  /\ p.role = "summary"
                  /\ p.prompt = [topic |-> features[Session].topic,
                                 lines |-> <<>>]
        /\ pc \in {"summary", "batch_loop", "returned"}
           => [j \in DOMAIN CallsOf(Session) |-> CallsOf(Session)[j].role]
                  = <<"facilitator", "sentiment", "summary">>
        /\ pc \in {"batch_loop", "returned"}
           => /\ Len(results) = Session
              /\ DOMAIN results[Session] =
                     {"topic", "report", "sentiment", "transcript_file"}
              /\ results[Session].topic = features[Session].topic
              /\ DOMAIN results[Session].report =
                     {"market_perspective", "go_or_no_go", "rationale"}
        /\ pc = "failed" => failed_call.role \in {"sentiment", "summary"}

\* the session of a roster of two ended at once and returned its result
C16_Witness ==
    /\ pc = "returned"
    /\ EndedAtOnce
    /\ Len(personas) = 2
    /\ transcript = <<>>
    /\ Len(results) = 1

\* coreQuestions = [Q1], maxFollowups = 0, a roster of at least one persona,
\* and the facilitator's output is (Q1, should_end = false)
OneQuestionSession ==
    /\ Session \in DOMAIN features
    /\ SessionCore = <<"Q1">>
    /\ max_followups = 0
    /\ Len(personas) >= 1
    /\ fac_out = [next_question |-> "Q1", should_end |-> FALSE]

\* C17: with coreQuestions = [Q1], maxFollowups = 0 and a facilitator whose
\* first output is (Q1, false), for every roster of n >= 1 personas: the
\* facilitator is invoked once, the only question recorded is Q1, each
\* persona is invoked at most once, and once the loop is over the transcript
\* is the Question Q1 followed by one Answer per persona in roster order.
C17_OneCoreQuestionOneRound ==
    OneQuestionSession =>
        /\ IssuedOf(calls, Session, "facilitator") = 1
        /\ pc # "facilitator"
        /\ asked_questions = <<"Q1">>
        /\ NumQuestions(transcript) = 1
        /\ transcript[1] = Question("Q1")
        /\ IssuedOf(calls, Session, "persona") <= Len(personas)
        /\ LoopOver
           => /\ Len(transcript) = 1 + Len(personas)
              /\ IssuedOf(calls, Session, "persona") = Len(personas)
              /\ \A k \in DOMAIN personas :
                     /\ IsAnswer(transcript[1 + k])
                     /\ transcript[1 + k].name = personas[k].name

\* such a session of two personas has returned
C17_Witness ==
    /\ pc = "returned"
    /\ OneQuestionSession
    /\ Len(personas) = 2
    /\ Len(transcript) = 3

\* C18: when an interview of a batch has failed, the exception that reaches
\* the caller of the batch driver carries the topic of that interview.
C18_ErrorNamesTopic ==
    (pc = "failed" /\ personas # <<>>) =>
        /\ "topic" \in DOMAIN raised
        /\ raised.topic = features[failed_call.interview].topic

\* the core questions that are not among the asked questions, in their order
RemainingCore(core, asked) == SelectSeq(core, LAMBDA q : q \notin Range(asked))

\* the number of asked questions that are not core questions
FollowupsAsked(core, asked) ==
    Len(SelectSeq(asked, LAMBDA q : q \notin Range(core)))

\* C19 (as claimed): the facilitator view renders, as its list of core
\* questions, those not asked yet, and it renders the number of follow-ups
\* already used (looked at where a core question was asked already).
C19_ViewRendersRemainingAndCount ==
    (pc = "facilitator" /\ Range(asked_questions) \cap Range(core_questions) # {}) =>
        \A p \in pending :
            /\ p.prompt.core_questions =
                   RemainingCore(core_questions, asked_questions)
            /\ "followups_used" \in DOMAIN p.prompt
            /\ p.prompt.followups_used =
                   FollowupsAsked(core_questions, asked_questions)

\* C19 (amended): for every topic, transcript, core questions and asked
\* questions, the facilitator view renders the topic, the whole list of core
\* questions and the whole list of asked questions, each as it was passed
\* in, and besides the recent records nothing else: no list of the core
\* questions not asked yet and no count of follow-ups.
C19_ViewRendersBothLists ==
    pc = "facilitator" =>
        \A p \in pending :
            /\ DOMAIN p.prompt =
                   {"topic", "core_questions", "already_asked", "recent"}
            /\ p.prompt.topic = topic
            /\ p.prompt.core_questions = core_questions
            /\ p.prompt.already_asked = asked_questions

\* a view composed after the first of two core questions and a follow-up
\* were asked
C19_Witness ==
    /\ pc = "facilitator"
    /\ core_questions = <<"Q1", "Q2">>
    /\ asked_questions = <<"Q1", "F1">>
    /\ transcript # <<>>
    /\ pending # {}

\* the invocations that have returned: all that were issued but the last,
\* when that one is in flight or has raised
ReturnedCalls ==
    IF pending # {} \/ pc = "failed"
    THEN 1..(Len(calls) - 1)
    ELSE DOMAIN calls

\* C20: in a session and in a batch at most one invocation is in flight, and
\* it is the last one issued; the coroutine is suspended exactly while one
\* is in flight; and every persona invocation of the session that has
\* returned has its Answer in the transcript, every facilitator invocation
\* that has returned with a question its Question.
C20_OneInvocationInFlight ==
    /\ Cardinality(pending) <= 1
    /\ pending # {} <=> pc \in {"facilitator", "persona", "sentiment", "summary"}
    /\ \A p \in pending :
          /\ p.role = pc
          /\ calls[Len(calls)] =
                 [interview |-> p.interview, role |-> p.role, who |-> p.who]
    /\ \A j \in ReturnedCalls :
          (calls[j].interview = Session /\ calls[j].role = "persona")
          => \E k \in DOMAIN transcript :
                 transcript[k] = Answer(personas[calls[j].who].name, ToString(j))
    /\ pc = "persona"
       => NumQuestions(transcript) = IssuedOf(calls, feature_i, "facilitator")
    /\ pc = "facilitator"
       => NumQuestions(transcript) = IssuedOf(calls, feature_i, "facilitator") - 1

\* the second persona is asked in the second round of the second interview
\* of a batch
C20_Witness ==
    /\ pc = "persona"
    /\ feature_i = 2
    /\ persona_i = 2
    /\ NumQuestions(transcript) = 2
    /\ Cardinality(pending) = 1

\* the configuration file is there and load_interview_config rejects it
ConfigRejected ==
    LET result == load_interview_config(sources.interview_config)
    IN "raised" \in DOMAIN result /\ result.raised = "ValueError"

\* a source is missing, or the configuration is malformed
SourceMissingOrMalformed ==
    \/ ~sources.personas_csv.exists
    \/ ~sources.interview_config.exists
    \/ ConfigRejected

\* C21 (as claimed): when the persona file or the configuration file is
\* missing, or the configuration is malformed, the run has ended with a
\* configuration error and no invocation was ever issued.
C21_BadSourcesAreFatal ==
    (pc # "main" /\ SourceMissingOrMalformed) =>
        /\ pc = "failed"
        /\ raised = ConfigurationError
        /\ calls = <<>>

\* C21 (amended): a configuration that load_interview_config rejects is
\* fatal: the run ends with that error, no invocation issued, no result, no
\* artifact.  A missing file is not: a missing persona file is replaced by
\* the demo personas and a missing configuration by the sample default, a
\* persona file's nameless rows are skipped (possibly leaving no persona),
\* and the run goes on to its interviews without a configuration error.
C21_OnlyRejectedConfigIsFatal ==
    pc # "main" =>
        /\ personas =
               IF sources.personas_csv.exists
               THEN load_personas_from_csv(sources.personas_csv).personas
               ELSE DefaultPersonas
        /\ ConfigRejected
           => /\ pc = "failed"
              /\ raised = ConfigurationError
              /\ failed_call = NoCall
              /\ calls = <<>>
              /\ results = <<>>
              /\ files = <<>>
        /\ ~ConfigRejected
           => /\ raised # ConfigurationError
              /\ features # <<>>
              /\ pc = "failed" => failed_call # NoCall
              /\ ~sources.interview_config.exists
                 => /\ features = <<[topic |-> DefaultConfig.topic,
                                     core_questions |->
                                         DefaultConfig.core_questions]>>
                    /\ max_followups = DefaultMaxFollowups

\* the run ended on a rejected configuration, the missing persona file
\* having been replaced by the demo personas
C21_Witness ==
    /\ pc = "failed"
    /\ raised = ConfigurationError
    /\ ~sources.personas_csv.exists
    /\ personas = DefaultPersonas
    /\ calls = <<>>

\* C22: as long as no invocation has failed, the results are one per
\* interview completed, in the order of the features: the i-th carries the
\* topic of the i-th feature, the name of the artifact written for it and
\* its report, whose decision is the one in that artifact unless a later
\* interview wrote a file of the same name; and once the batch has returned,
\* the caller holds these results, one per feature.
C22_OneResultPerFeatureInOrder ==
    failed_call = NoCall =>
        /\ Len(results) = feature_i - 1
        /\ Len(results) <= Len(features)
        /\ \A i \in DOMAIN results :
              /\ results[i].topic = features[i].topic
              /\ results[i].transcript_file = safe_topic(features[i].topic)
              /\ results[i].report \in ReportOutputs
              /\ (\A j \in DOMAIN results :
                      j > i => results[j].transcript_file # results[i].transcript_file)
                 => \E k \in DOMAIN files :
                        /\ files[k].name = results[i].transcript_file
                        /\ files[k].content.topic = features[i].topic
                        /\ files[k].content.decision = results[i].report.go_or_no_go
        /\ pc = "returned"
           => /\ returned = <<results>>
              /\ Len(results) = Len(features)

\* a batch of two features with different topics has returned
C22_Witness ==
    /\ pc = "returned"
    /\ Len(features) = 2
    /\ features[1].topic # features[2].topic
    /\ returned # <<>>
    /\ Len(returned[1]) = 2
    /\ personas # <<>>

\* the facilitator has followed its instructions so far: the questions it
\* asked are the core questions in their order, follow-ups only after the
\* last of them, and it did not end the interview before the last of them
CompliantFacilitator ==
    /\ \A j \in DOMAIN asked_questions :
          IF j <= Len(SessionCore)
          THEN asked_questions[j] = SessionCore[j]
          ELSE asked_questions[j] \notin Range(SessionCore)
    /\ (fac_out # Unassigned /\ fac_out.should_end)
       => Len(asked_questions) >= Len(SessionCore)

\* C23: with non-empty coreQuestions and any max_followups, when the loop is
\* over and the facilitator has followed its instructions, every core
\* question is the text of a Question record of the transcript.
C23_CompliantFacilitatorCoversCore ==
    (ValidSession /\ personas # <<>> /\ LoopOver /\ CompliantFacilitator) =>
        \A q \in Range(SessionCore) :
            \E k \in DOMAIN transcript : transcript[k] = Question(q)

\* C24: the step that ends a round (the last persona returns; with an empty
\* roster, the facilitator returns a question) adds one to followups_used if
\* and only if the round's question is not a core question; then the loop
\* is over (the sentiment request is issued) if and only if followups_used
\* >= max_followups or len(asked_questions) >= len(core_questions) +
\* max_followups, and otherwise the facilitator is invoked.  No other step of
\* an interview changes followups_used.
C24_EndOfRoundAccounting ==
    [][IF \/ pc = "persona" /\ pc' \in {"facilitator", "sentiment"}
          \/ pc = "facilitator" /\ pc' \in {"facilitator", "sentiment"}
                                /\ ~fac_out'.should_end
       THEN /\ followups_used' =
                   IF fac_out'.next_question \in Range(core_questions)
                   THEN followups_used
                   ELSE followups_used + 1
            /\ pc' = "sentiment"
               <=> \/ followups_used' >= max_followups
                   \/ Len(asked_questions')
                          >= Len(core_questions) + max_followups
            /\ pc' = "facilitator"
               => /\ calls' = Append(calls, [interview |-> feature_i,
                                             role |-> "facilitator",
                                             who |-> 0])
                  /\ Cardinality(pending') = 1
       ELSE pc # "batch_loop" => followups_used' = followups_used]_vars

\* after a core question and a follow-up the budget of two is not used up:
\* the facilitator is invoked again
C24_Witness ==
    /\ pc = "facilitator"
    /\ personas # <<>>
    /\ max_followups = 2
    /\ followups_used = 1
    /\ Len(asked_questions) = 2

\* the answer texts in the transcript section of an artifact
ArtifactAnswerTexts(f) ==
    {f.content.transcript[k].content :
        k \in {i \in DOMAIN f.content.transcript :
                 IsAnswer(f.content.transcript[i])}}

\* C25: as long as no invocation has failed, every interview completed has
\* its own artifact: there are as many files as results, and the file named
\* in the j-th result holds the decision and the answers of interview j.
C25_ArtifactPerInterview ==
    (failed_call = NoCall /\ personas # <<>>) =>
        /\ Len(files) = Len(results)
        /\ \A j \in DOMAIN results :
               \E k \in DOMAIN files :
                   /\ files[k].name = results[j].transcript_file
                   /\ files[k].content.topic = features[j].topic
                   /\ files[k].content.decision = results[j].report.go_or_no_go
                   /\ ArtifactAnswerTexts(files[k]) = AnswerTextsOf(j)

\* C26: for every transcript, the records the facilitator view shows are the
\* last min(len(transcript), 20) records of the transcript, in their order.
C26_ViewShowsLastTwenty ==
    pc = "facilitator" =>
        \A p \in pending :
            LET n == IF Len(transcript) < 20 THEN Len(transcript) ELSE 20
            IN /\ Len(p.prompt.recent) = n
               /\ \A k \in 1..n :
                      p.prompt.recent[k] = transcript[Len(transcript) - n + k]

\* a view composed from a transcript of 22 records
C26_Witness ==
    /\ pc = "facilitator"
    /\ Len(transcript) = 22
    /\ \E p \in pending : /\ Len(p.prompt.recent) = 20
                          /\ p.prompt.recent[1] = transcript[3]

\* s is t, or t without records at its end
IsPrefix(s, t) == Len(s) <= Len(t) /\ s = Prefix(t, Len(s))

\* C27: within a session every step leaves the transcript as it is or adds
\* records at its end; the only step that does not is the start of the next
\* interview, whose transcript is a new, empty one.
C27_TranscriptAppendOnly ==
    [][pc # "batch_loop" => IsPrefix(transcript, transcript')]_vars

\* the transcript of a session holds two rounds
C27_Witness ==
    /\ pc = "facilitator"
    /\ Len(personas) = 2
    /\ Len(transcript) = 6

\* the texts of the Question records of a transcript, in their order
QuestionTexts(tr) ==
    LET questions == SelectSeq(tr, IsQuestion)
    IN [k \in DOMAIN questions |-> questions[k].content]

\* C28: in every state of a session asked_questions is the sequence of the
\* texts of the Question records of the transcript, repeats included, so its
\* length is the number of rounds begun.
C28_AskedMirrorsQuestions ==
    /\ asked_questions = QuestionTexts(transcript)
    /\ Len(asked_questions) = NumQuestions(transcript)

\* the second round of a session asks the question of the first again
C28_Witness ==
    /\ pc = "persona"
    /\ Len(asked_questions) = 2
    /\ asked_questions[1] = asked_questions[2]
    /\ NumQuestions(transcript) = 2

\* the positions of the Answer records of a name, in their order
AnswerPositions(tr, name) ==
    SelectSeq([k \in DOMAIN tr |-> k],
              LAMBDA k : IsAnswer(tr[k]) /\ tr[k].name = name)

\* C29: for every transcript and roster the sentiment prompt has one section
\* per name of the roster and no other section; the section of a name holds,
\* in the order of the transcript, one entry per Answer record of that name,
\* with the answer's text and the text of the last Question record before it
\* (none, when no question precedes it).  Answers of other names are in no
\* section.
C29_SentimentPromptPairsAnswers ==
    pc = "sentiment" =>
        \A p \in pending :
            /\ \A k \in DOMAIN personas :
                   Cardinality({j \in DOMAIN p.prompt :
                                  p.prompt[j].name = personas[k].name}) = 1
            /\ \A j \in DOMAIN p.prompt :
                   LET name == p.prompt[j].name
                       at == AnswerPositions(transcript, name)
                   IN /\ \E k \in DOMAIN personas : personas[k].name = name
                      /\ p.prompt[j].responses =
                             [i \in DOMAIN at |->
                                [question |-> PrecedingQuestion(transcript, at[i]),
                                 response |-> transcript[at[i]].content]]

\* the prompt of a roster of one shows its two answers, each with its own
\* question, and not the answer of a name outside the roster
C29_Witness ==
    /\ pc = "sentiment"
    /\ Len(personas) = 1
    /\ \E k \in DOMAIN transcript :
           IsAnswer(transcript[k]) /\ transcript[k].name # personas[1].name
    /\ \E p \in pending :
           /\ Len(p.prompt[1].responses) = 2
           /\ p.prompt[1].responses[1].question
                  # p.prompt[1].responses[2].question

====
